---- MODULE Spec2Model ----
(***************************************************************************)
(* Autobot: the debug-event log of the frontend (App.tsx), its reducer and *)
(* time-travel cursor, the IndexedDB conversation store, and the backend   *)
(* chat endpoint with its LLM service.                                     *)
(***************************************************************************)
EXTENDS Integers, Sequences, FiniteSets, TLC

(* ------------------------------ bounds -------------------------------- *)

\* Events (uuid / Date.now ticks) created in one run of the frontend.
MaxEvents == 3
\* Conversation ids generated (uuidv4 at mount and by handleResetChat).
MaxConvs == 2
\* Length of the event logs the reducer is applied to.
MaxLogLen == 3
\* render_ui_component tool calls in one completion.
MaxToolCalls == 1

(* --------------------------- frontend state --------------------------- *)

VARIABLES
  debugEvents,            \* App.tsx:17  useState<DebugEvent[]>([])
  historyIndex,           \* App.tsx:18  useState(-1)
  loading,                \* App.tsx:19  useState(false)
  currentConversationId,  \* App.tsx:21  useState(uuidv4())
  messages,               \* App.tsx:68  useMemo over currentEvents, as last rendered
  conversations,          \* IndexedDB store 'conversations', ordered by updatedAt
  turn,                   \* the handleSendMessage call in flight, with its closure
  selecting,              \* the handleSelectConversation call awaiting getConversation
  modelChange,            \* the handleModelChange call awaiting the config store
  initPending,            \* the mount effect has not reached listConversations yet
  tick,                   \* events created so far (source of uuidv4 / Date.now)
  convCount,              \* conversation ids generated so far
  op,                     \* the last operation: its name, and whether it began below the tip
  storeDown,              \* IndexedDB rejects writes (quota exceeded, store unavailable)
  lostWrites,             \* a saveConversation of an appended event has been rejected
  alerts                  \* the messages shown with alert()

frontendVars == <<debugEvents, historyIndex, loading, currentConversationId, messages,
                  conversations, turn, selecting, modelChange, initPending, tick,
                  convCount, op, storeDown, lostWrites, alerts>>

(* --------------------------- backend state ---------------------------- *)

\* POST /api/chat calls made in one run of the backend.
MaxRequests == 2
\* Tool calls of the completion when one call of LLMService.chat is followed alone.
MaxCompletionToolCalls == 3

VARIABLES
  llmConfigured,          \* part_001:15-16  llmService.openai and .config are set
  conversationFiles,      \* data/conversation_<id>.json, by conversation id
  requests,               \* the POST /api/chat calls, each with its locals
  broadcasts,             \* the events given to broadcastDebugEvents, by call
  configFile,             \* data/config.json
  configReply             \* the last answer of a /api/config route

configVars == <<configFile, configReply>>

backendVars == <<llmConfigured, conversationFiles, requests, broadcasts, configVars>>

vars == <<frontendVars, backendVars>>

Requests == 1..MaxRequests

\* Conversation ids of the backend: 1 is the id a client sends, 1 + r the uuidv4
\* generated for call r when the client sends none (0).
BackendConvIds == 1..(MaxRequests + 1)

NoFile == [exists |-> FALSE, messages |-> <<>>]

NewRequest ==
  [pc |-> "new", message |-> "", convId |-> 0, messages |-> <<>>, debugEvents |-> <<>>,
   calls |-> <<>>, content |-> "", status |-> 0, body |-> [none |-> TRUE],
   failure |-> "none"]

\* The backend before any call.
\* index.ts:409-415  loadConfig returns null while data/config.json does not exist
NoConfig == [none |-> TRUE]

NoReply == [route |-> "none", status |-> 0, body |-> [none |-> TRUE]]

BackendStart ==
  /\ llmConfigured = FALSE
  /\ conversationFiles = [c \in BackendConvIds |-> NoFile]
  /\ requests = [r \in Requests |-> NewRequest]
  /\ broadcasts = [r \in Requests |-> <<>>]
  /\ configFile = NoConfig
  /\ configReply = NoReply

(* ------------------------------ helpers ------------------------------- *)

Range(s) == {s[i] : i \in 1..Len(s)}

\* Array.prototype.slice(0, n)
Slice(s, n) == SubSeq(s, 1, IF n < 0 THEN 0 ELSE IF n > Len(s) THEN Len(s) ELSE n)

\* The elements of s satisfying Test, in order (Array.prototype.filter).
Filter(s, Test(_)) == SelectSeq(s, Test)

\* JavaScript undefined / null, and the empty string
Undefined == "undefined"
NullContent == "null"
EmptyString == ""

\* event.data?.field is truthy: the field is there and is not '' / null
Truthy(data, f) ==
  f \in DOMAIN data /\ data[f] # EmptyString /\ data[f] # NullContent /\ data[f] # Undefined

\* event.data.field, undefined when absent
Field(data, f) == IF f \in DOMAIN data THEN data[f] ELSE Undefined

\* x || ''
OrEmpty(x) == IF x = NullContent \/ x = Undefined \/ x = EmptyString THEN EmptyString ELSE x

(* ------------------------------ reducer ------------------------------- *)

\* App.tsx:64-66
currentEvents_NoSlice(events, index) == events
currentEvents_OffByOne(events, index) == Slice(events, index + 2)
currentEvents(events, index) == Slice(events, index + 1)

\* An object spread with one field set: { ...m, [f]: v }
WithField(m, f, v) ==
  [k \in DOMAIN m \cup {f} |-> IF k = f THEN v ELSE m[k]]

\* msgs with its last element replaced
ReplaceLast(msgs, m) == [msgs EXCEPT ![Len(msgs)] = m]

\* App.tsx:71-77
UserMessage(event) ==
  [id |-> event.id, role |-> "user", content |-> event.data.content,
   timestamp |-> event.timestamp]

\* App.tsx:78-86
AssistantMessage_RawContent(event) ==
  [id |-> event.id, role |-> "assistant", content |-> event.data.message.content,
   timestamp |-> event.timestamp, uiComponents |-> <<>>,
   usage |-> Field(event.data, "usage")]
AssistantMessage(event) ==
  [id |-> event.id, role |-> "assistant",
   content |-> OrEmpty(event.data.message.content),
   timestamp |-> event.timestamp, uiComponents |-> <<>>,
   usage |-> Field(event.data, "usage")]

\* App.tsx:87-91
AttachComponent_AnyRole(msgs, event) ==
  IF msgs # <<>>
  THEN LET last == msgs[Len(msgs)]
           had == IF "uiComponents" \in DOMAIN last THEN last.uiComponents ELSE <<>>
       IN ReplaceLast(msgs, WithField(last, "uiComponents",
                                      Append(had, event.data.component)))
  ELSE msgs
AttachComponent(msgs, event) ==
  IF msgs # <<>> /\ msgs[Len(msgs)].role = "assistant"
  THEN ReplaceLast(msgs, WithField(msgs[Len(msgs)], "uiComponents",
         Append(msgs[Len(msgs)].uiComponents, event.data.component)))
  ELSE msgs

\* App.tsx:92-96
AttachReasoning_LastAssistant(msgs, event) ==
  LET idx == {i \in 1..Len(msgs) : msgs[i].role = "assistant"}
  IN IF idx # {}
     THEN LET i == CHOOSE j \in idx : \A k \in idx : k <= j
          IN [msgs EXCEPT ![i] = WithField(msgs[i], "reasoning", event.data.reasoning)]
     ELSE msgs
AttachReasoning(msgs, event) ==
  IF msgs # <<>> /\ msgs[Len(msgs)].role = "assistant"
  THEN ReplaceLast(msgs, WithField(msgs[Len(msgs)], "reasoning", event.data.reasoning))
  ELSE msgs

\* App.tsx:70-98, the body of the forEach
ReduceStep_ErrorsShown(msgs, event) ==
  IF event.type = "request" /\ event.source = "frontend" /\ Truthy(event.data, "content")
  THEN Append(msgs, UserMessage(event))
  ELSE IF event.type = "response" /\ event.source = "llm" /\ "message" \in DOMAIN event.data
  THEN Append(msgs, AssistantMessage(event))
  ELSE IF event.type = "tool_call" /\ event.source = "llm" /\ "component" \in DOMAIN event.data
  THEN AttachComponent(msgs, event)
  ELSE IF event.type = "thought" /\ event.source = "llm" /\ Truthy(event.data, "reasoning")
  THEN AttachReasoning(msgs, event)
  ELSE IF event.type = "error"
  THEN Append(msgs, [id |-> event.id, role |-> "assistant", content |-> EmptyString,
                     timestamp |-> event.timestamp, uiComponents |-> <<>>,
                     usage |-> Undefined])
  ELSE msgs
ReduceStep(msgs, event) ==
  IF event.type = "request" /\ event.source = "frontend" /\ Truthy(event.data, "content")
  THEN Append(msgs, UserMessage(event))
  ELSE IF event.type = "response" /\ event.source = "llm" /\ "message" \in DOMAIN event.data
  THEN Append(msgs, AssistantMessage(event))
  ELSE IF event.type = "tool_call" /\ event.source = "llm" /\ "component" \in DOMAIN event.data
  THEN AttachComponent(msgs, event)
  ELSE IF event.type = "thought" /\ event.source = "llm" /\ Truthy(event.data, "reasoning")
  THEN AttachReasoning(msgs, event)
  ELSE msgs

\* App.tsx:68-100: msgs = []; currentEvents.forEach(...); return msgs
RECURSIVE Messages(_)
Messages(events) ==
  IF events = <<>> THEN <<>>
  ELSE ReduceStep(Messages(SubSeq(events, 1, Len(events) - 1)), events[Len(events)])

\* What a render shows for the given state.
Render_LastTwoEventsOnly(events, index) ==
  LET prefix == currentEvents(events, index)
  IN Messages(SubSeq(prefix, IF Len(prefix) > 2 THEN Len(prefix) - 1 ELSE 1, Len(prefix)))
Render(events, index) == Messages(currentEvents(events, index))

(* --------------------- StorageService (IndexedDB) --------------------- *)

\* The 'conversations' object store is a sequence of {id, events} records kept in
\* the order of their updatedAt (Date.now() of the put), oldest first.

WithoutRecord(db, id) == Filter(db, LAMBDA r : r.id # id)

\* StorageService.saveConversation: db.put('conversations', {id, events, updatedAt})
saveConversation_Append(db, id, events) == Append(db, [id |-> id, events |-> events])
saveConversation(db, id, events) ==
  Append(WithoutRecord(db, id), [id |-> id, events |-> events])

\* StorageService.getConversation: conv ? conv.events : []
getConversation_FallsBackToLatest(db, id) ==
  IF \E i \in 1..Len(db) : db[i].id = id
  THEN db[CHOOSE i \in 1..Len(db) : db[i].id = id].events
  ELSE IF db = <<>> THEN <<>> ELSE db[Len(db)].events
getConversation(db, id) ==
  IF \E i \in 1..Len(db) : db[i].id = id
  THEN db[CHOOSE i \in 1..Len(db) : db[i].id = id].events
  ELSE <<>>

\* StorageService.listConversations, as the set of stored ids
StoredIds(db) == {db[i].id : i \in 1..Len(db)}

\* StorageService.deleteConversation: db.delete('conversations', id)
deleteConversation(db, id) == WithoutRecord(db, id)

(* ------------------------------- events ------------------------------- *)

\* uuidv4() and Date.now() of the n-th event created
NewEvent(n, type, source, data) ==
  [id |-> n, timestamp |-> n, type |-> type, source |-> source, data |-> data]

\* App.tsx:154-161
UserEvent(n, content) == NewEvent(n, "request", "frontend", [content |-> content])
\* App.tsx:137-144
ModelChangedEvent(n, model) == NewEvent(n, "request", "frontend", [model |-> model])
\* App.tsx:191-198
NewConversationEvent(n, newId) == NewEvent(n, "request", "frontend", [newId |-> newId])
\* App.tsx:120-127
ConversationLoadedEvent(n, id, count) ==
  NewEvent(n, "request", "frontend", [id |-> id, eventCount |-> count])

(* --------------------------- addDebugEvent ---------------------------- *)

\* The part of the state an append works on.
AppState(events, index, db) ==
  [debugEvents |-> events, historyIndex |-> index, conversations |-> db]

\* The store after storageService.saveConversation(id, events): the write is
\* rejected, and the store left as it was, while IndexedDB is down.
Persist(db, id, events) ==
  IF storeDown THEN db ELSE saveConversation(db, id, events)

\* App.tsx:54-62. convId is the currentConversationId of the render whose
\* addDebugEvent is called (useCallback closes over it).
addDebugEvent_KeepCursor(s, convId, event) ==
  LET next == Append(s.debugEvents, event)
  IN AppState(next, s.historyIndex, Persist(s.conversations, convId, next))
addDebugEvent_NoSave(s, convId, event) ==
  LET next == Append(s.debugEvents, event)
  IN AppState(next, Len(next) - 1, s.conversations)
addDebugEvent(s, convId, event) ==
  LET next == Append(s.debugEvents, event)
  IN AppState(next, Len(next) - 1, Persist(s.conversations, convId, next))

\* addDebugEvent called for each event of evs in turn, from state s.
RECURSIVE AppendAll(_, _, _)
AppendAll(s, convId, evs) ==
  IF evs = <<>> THEN s
  ELSE AppendAll(addDebugEvent(s, convId, evs[1]), convId, SubSeq(evs, 2, Len(evs)))

\* The part of the state the handlers pass to an append.
Here == AppState(debugEvents, historyIndex, conversations)

\* The committed result of an operation: state s, rendered.
Commit(s) ==
  /\ debugEvents' = s.debugEvents
  /\ historyIndex' = s.historyIndex
  /\ conversations' = s.conversations
  /\ messages' = Render(s.debugEvents, s.historyIndex)

Idle == [pc |-> "idle"]

\* The operations that call addDebugEvent, whose saveConversation is not awaited:
\* its outcome is there, unobserved, when the operation is over.
WritingOps == {"append", "chat", "resolved", "rejected", "reset", "selected"}

\* What an operation of the frontend leaves behind besides its state updates: a
\* lost write when it wrote while the store was down, and the messages it alerted.
Ledger(alerted) ==
  /\ UNCHANGED storeDown
  /\ lostWrites' = (lostWrites \/ (storeDown /\ op'.name \in WritingOps))
  /\ alerts' = alerts \cup alerted

NoFaults ==
  /\ storeDown = FALSE
  /\ lostWrites = FALSE
  /\ alerts = {}

\* The record kept in op of the operation just performed: its name, and whether
\* the cursor was below the tip when it began.
Op(name) == [name |-> name, below |-> historyIndex < Len(debugEvents) - 1]

(* ------------------------ App.tsx: the handlers ----------------------- *)

\* The one utterance and the one model name the user enters.
Utterance == "hi"
ModelName == "m"

\* App.tsx:15-24, on an empty database
Init ==
  /\ debugEvents = <<>>
  /\ historyIndex = -1
  /\ loading = FALSE
  /\ currentConversationId = 1
  /\ messages = <<>>
  /\ conversations = <<>>
  /\ turn = Idle
  /\ selecting = Idle
  /\ modelChange = Idle
  /\ initPending = TRUE
  /\ tick = 0
  /\ convCount = 1
  /\ op = [name |-> "mount", below |-> FALSE]
  /\ NoFaults
  /\ BackendStart

\* App.tsx:42-49: the mount effect, once listConversations has resolved
InitLoad ==
  /\ initPending
  /\ initPending' = FALSE
  /\ IF conversations # <<>>
     THEN LET last == conversations[Len(conversations)]
          IN /\ Commit(AppState(last.events, Len(last.events) - 1, conversations))
             /\ currentConversationId' = last.id
     ELSE UNCHANGED <<debugEvents, historyIndex, conversations, messages,
                      currentConversationId>>
  /\ op' = Op("init")
  /\ UNCHANGED backendVars
  /\ Ledger({})
  /\ UNCHANGED <<loading, turn, selecting, modelChange, tick, convCount>>

\* App.tsx:152-166: the log and the record handleSendMessage writes
SendState_NoTruncate(s, convId, userEvent) ==
  LET nextEvents == Append(s.debugEvents, userEvent)
  IN AppState(nextEvents, Len(nextEvents) - 1,
              Persist(s.conversations, convId, nextEvents))
SendState_NoSave(s, convId, userEvent) ==
  LET baseEvents == Slice(s.debugEvents, s.historyIndex + 1)
      nextEvents == Append(baseEvents, userEvent)
  IN AppState(nextEvents, Len(nextEvents) - 1, s.conversations)
SendState(s, convId, userEvent) ==
  LET baseEvents == Slice(s.debugEvents, s.historyIndex + 1)
      nextEvents == Append(baseEvents, userEvent)
  IN AppState(nextEvents, Len(nextEvents) - 1,
              Persist(s.conversations, convId, nextEvents))

\* What the user may have typed when the form is submitted.
Inputs == {"", " ", "hi", " hi "}

\* String.prototype.trim on those inputs
Trim(input) ==
  CASE input = " " -> EmptyString
    [] input = " hi " -> Utterance
    [] OTHER -> input

\* ChatPanel.tsx:28-31  handleSubmit goes on to onSendMessage
handleSubmitAccepts_IgnoresLoading(input, isLoading) == Trim(input) # EmptyString
handleSubmitAccepts(input, isLoading) == Trim(input) # EmptyString /\ ~isLoading

\* ChatPanel.tsx:28-35 handleSubmit, then App.tsx:148-166 handleSendMessage up to
\* its first await
handleSendMessage ==
  /\ tick < MaxEvents
  /\ \E input \in Inputs :
       /\ handleSubmitAccepts(input, loading)
       /\ LET userEvent == UserEvent(tick + 1, Trim(input))
          IN /\ Commit(SendState(Here,
                                 currentConversationId, userEvent))
             /\ turn' = [pc |-> "saving", convId |-> currentConversationId,
                         messages |-> messages, userEvent |-> userEvent,
                         written |-> ~storeDown]
  /\ loading' = TRUE
  /\ tick' = tick + 1
  /\ op' = Op("send")
  /\ UNCHANGED backendVars
  /\ Ledger({})
  /\ UNCHANGED <<currentConversationId, selecting, modelChange, initPending, convCount>>

\* App.tsx:130-136: handleModelChange up to its awaits on the config store
handleModelChange ==
  /\ modelChange = Idle
  /\ selecting = Idle   \* one handler at a time waits on the local store
  /\ tick < MaxEvents
  /\ modelChange' = [pc |-> "saving", convId |-> currentConversationId]
  /\ op' = Op("modelChange")
  /\ UNCHANGED backendVars
  /\ Ledger({})
  /\ UNCHANGED <<debugEvents, historyIndex, loading, currentConversationId, messages,
                 conversations, turn, selecting, initPending, tick, convCount>>

\* App.tsx:136-144: the config is saved; the bookkeeping event is appended
ModelChanged ==
  /\ modelChange # Idle
  /\ tick < MaxEvents
  /\ LET s1 == AppendAll(Here,
                     modelChange.convId, <<ModelChangedEvent(tick + 1, ModelName)>>)
     IN /\ Commit(s1)
        /\ op' = Op("append")
        /\ UNCHANGED backendVars
        /\ Ledger({})
  /\ modelChange' = Idle
  /\ tick' = tick + 1
  /\ UNCHANGED <<loading, currentConversationId, turn, selecting, initPending, convCount>>

\* App.tsx:185-199
handleResetChat ==
  /\ convCount < MaxConvs
  /\ tick < MaxEvents
  /\ LET newId == convCount + 1
         s0 == AppState(<<>>, -1, conversations)
         s1 == AppendAll(s0, currentConversationId, <<NewConversationEvent(tick + 1, newId)>>)
     IN /\ Commit(s1)
        /\ currentConversationId' = newId
        /\ op' = Op("reset")
        /\ UNCHANGED backendVars
        /\ Ledger({})
  /\ convCount' = convCount + 1
  /\ tick' = tick + 1
  /\ UNCHANGED <<loading, turn, selecting, modelChange, initPending>>

\* App.tsx:114-115: a conversation listed in the history panel is clicked;
\* getConversation is issued
handleSelectConversation ==
  /\ selecting = Idle
  /\ modelChange = Idle   \* one handler at a time waits on the local store
  /\ tick < MaxEvents
  /\ \E id \in StoredIds(conversations) :
       selecting' = [pc |-> "loading", id |-> id, convId |-> currentConversationId]
  /\ op' = Op("select")
  /\ UNCHANGED backendVars
  /\ Ledger({})
  /\ UNCHANGED <<debugEvents, historyIndex, loading, currentConversationId, messages,
                 conversations, turn, modelChange, initPending, tick, convCount>>

\* App.tsx:115-127: getConversation resolves with what the store holds by then
\* (the conversation may have been deleted since the click)
ConversationSelected ==
  /\ selecting # Idle
  /\ tick < MaxEvents
  /\ LET loadedEvents == getConversation(conversations, selecting.id)
         s0 == AppState(loadedEvents, Len(loadedEvents) - 1, conversations)
         s1 == AppendAll(s0, selecting.convId,
                     <<ConversationLoadedEvent(tick + 1, selecting.id, Len(loadedEvents))>>)
     IN /\ Commit(s1)
        /\ currentConversationId' = selecting.id
        /\ op' = Op("selected")
        /\ UNCHANGED backendVars
        /\ Ledger({})
  /\ selecting' = Idle
  /\ tick' = tick + 1
  /\ UNCHANGED <<loading, turn, modelChange, initPending, convCount>>

\* App.tsx:291 and 300  setHistoryIndex(i): the log and the store are not touched
setHistoryIndex_Truncates(s, i) ==
  AppState(Slice(s.debugEvents, i + 1), i, s.conversations)
setHistoryIndex(s, i) == AppState(s.debugEvents, i, s.conversations)

\* App.tsx:295-302: the slider is moved
SetHistoryIndex ==
  /\ Len(debugEvents) > 0
  /\ \E i \in -1..(Len(debugEvents) - 1) :
       /\ i # historyIndex
       /\ Commit(setHistoryIndex(Here, i))
  /\ op' = Op("slider")
  /\ UNCHANGED backendVars
  /\ Ledger({})
  /\ UNCHANGED <<loading, currentConversationId, turn, selecting, modelChange,
                 initPending, tick, convCount>>

\* App.tsx:288-293
GoLive ==
  /\ Len(debugEvents) > 0
  /\ Commit(setHistoryIndex(Here, Len(debugEvents) - 1))
  /\ op' = Op("goLive")
  /\ UNCHANGED backendVars
  /\ Ledger({})
  /\ UNCHANGED <<loading, currentConversationId, turn, selecting, modelChange,
                 initPending, tick, convCount>>

\* App.tsx:315-319
ClearState_KeepCursor(s, convId) ==
  AppState(<<>>, s.historyIndex, Persist(s.conversations, convId, <<>>))
ClearState_DeletesRecord(s, convId) ==
  AppState(<<>>, -1, WithoutRecord(s.conversations, convId))
ClearState(s, convId) ==
  AppState(<<>>, -1, Persist(s.conversations, convId, <<>>))

ClearEvents ==
  /\ Commit(ClearState(Here,
                       currentConversationId))
  /\ op' = Op("clear")
  /\ UNCHANGED backendVars
  /\ Ledger({})
  /\ UNCHANGED <<loading, currentConversationId, turn, selecting, modelChange,
                 initPending, tick, convCount>>

\* ConversationsPanel.handleDelete / DatabasePanel.handleDelete
DeleteConversation ==
  /\ \E id \in StoredIds(conversations) :
       /\ conversations' = deleteConversation(conversations, id)
       /\ op' = [name |-> "delete", below |-> Op("delete").below, id |-> id]
  /\ UNCHANGED backendVars
  /\ Ledger({})
  /\ UNCHANGED <<debugEvents, historyIndex, loading, currentConversationId, messages,
                 turn, selecting, modelChange, initPending, tick, convCount>>

(* ------------------- OpenRouterService.chat (frontend) ---------------- *)

\* What chat reports through onDebugEvent: a request event when the call is made,
\* then response, tool_call (one per component) and thought events when the
\* completion arrives, or one error event when it fails.

RequestSentEvent(n, contextMessages) ==
  NewEvent(n, "request", "frontend", [messages |-> contextMessages])
ResponseEvent(n, content) ==
  NewEvent(n, "response", "llm", [message |-> [content |-> content], usage |-> "usage"])
Component(n) == [id |-> n, type |-> "button", props |-> "props"]
ToolCallEvent(n) ==
  NewEvent(n, "tool_call", "llm",
           [toolCall |-> "render_ui_component", component |-> Component(n)])
ThoughtEvent(n) == NewEvent(n, "thought", "llm", [reasoning |-> "because"])
ErrorEvent(n, source, message) == NewEvent(n, "error", source, [error |-> message])

\* The events of a completion with k components, numbered from n.
CompletionEvents(n, k, thought) ==
  <<ResponseEvent(n, "hello")>>
  \o [i \in 1..k |-> ToolCallEvent(n + i)]
  \o (IF thought THEN <<ThoughtEvent(n + k + 1)>> ELSE <<>>)

\* App.tsx:170  messages.concat([{ id: userEvent.id, role: 'user', content,
\* timestamp: userEvent.timestamp }]), messages being those of the render
\* handleSendMessage was called in
contextMessages_WithoutUserMessage(msgs, userEvent, content) == msgs
contextMessages(msgs, userEvent, content) ==
  Append(msgs, [id |-> userEvent.id, role |-> "user", content |-> content,
                timestamp |-> userEvent.timestamp])

\* App.tsx:168-176: saveConversation has resolved; the context is built from the
\* messages of the render handleSendMessage was called in, and chat is called
ChatCalled ==
  /\ turn.pc = "saving"
  /\ turn.written
  /\ tick < MaxEvents
  /\ LET context == contextMessages(turn.messages, turn.userEvent, Utterance)
         s1 == AppendAll(Here, turn.convId,
                     <<RequestSentEvent(tick + 1, context)>>)
     IN /\ Commit(s1)
        /\ turn' = [pc |-> "calling", convId |-> turn.convId, messages |-> turn.messages,
                    userEvent |-> turn.userEvent, contextMessages |-> context]
        /\ op' = Op("chat")
        /\ UNCHANGED backendVars
        /\ Ledger({})
  /\ tick' = tick + 1
  /\ UNCHANGED <<loading, currentConversationId, selecting, modelChange, initPending,
                 convCount>>

\* MaxEvents bounds the events of the operations that start; a call in flight can
\* settle whatever their number, with one event more.
MaxSettledEvents == MaxEvents + 1

\* App.tsx:172-182: the completion has arrived; chat resolves
ChatResolved ==
  /\ turn.pc = "calling"
  /\ \E k \in 0..MaxToolCalls, thought \in BOOLEAN :
       LET evs == CompletionEvents(tick + 1, k, thought)
           s1 == AppendAll(Here, turn.convId, evs)
       IN /\ tick + Len(evs) <= MaxSettledEvents
          /\ Commit(s1)
          /\ tick' = tick + Len(evs)
          /\ op' = Op("resolved")
          /\ UNCHANGED backendVars
          /\ Ledger({})
  /\ loading' = FALSE
  /\ turn' = Idle
  /\ UNCHANGED <<currentConversationId, selecting, modelChange, initPending, convCount>>

\* App.tsx:172-182: the completion call failed; chat rejects, the error is alerted
ChatRejected ==
  /\ turn.pc = "calling"
  /\ tick < MaxSettledEvents
  /\ LET s1 == AppendAll(Here, turn.convId,
                     <<ErrorEvent(tick + 1, "llm", "HTTP 500")>>)
     IN /\ Commit(s1)
        /\ op' = Op("rejected")
        /\ UNCHANGED backendVars
        /\ Ledger({"HTTP 500"})
  /\ tick' = tick + 1
  /\ loading' = FALSE
  /\ turn' = Idle
  /\ UNCHANGED <<currentConversationId, selecting, modelChange, initPending, convCount>>

Next ==
  \/ InitLoad
  \/ handleSendMessage
  \/ ChatCalled
  \/ ChatResolved
  \/ ChatRejected
  \/ handleModelChange
  \/ ModelChanged
  \/ handleResetChat
  \/ handleSelectConversation
  \/ ConversationSelected
  \/ SetHistoryIndex
  \/ GoLive
  \/ ClearEvents
  \/ DeleteConversation

Spec == Init /\ [][Next]_vars

(* ------------------------ the store may fail -------------------------- *)

\* IndexedDB starts rejecting writes.
StoreFails ==
  /\ ~storeDown
  /\ storeDown' = TRUE
  /\ op' = Op("storeFails")
  /\ UNCHANGED <<debugEvents, historyIndex, loading, currentConversationId, messages,
                 conversations, turn, selecting, modelChange, initPending, tick,
                 convCount, lostWrites, alerts, backendVars>>

\* IndexedDB accepts writes again.
StoreRecovers ==
  /\ storeDown
  /\ storeDown' = FALSE
  /\ op' = Op("storeRecovers")
  /\ UNCHANGED <<debugEvents, historyIndex, loading, currentConversationId, messages,
                 conversations, turn, selecting, modelChange, initPending, tick,
                 convCount, lostWrites, alerts, backendVars>>

\* App.tsx:166: the awaited saveConversation of the user event rejects; the
\* await is before the try block, so handleSendMessage rejects there, and the
\* rejection reaches ChatPanel.handleSubmit, which has no handler for it.
SendWriteRejected ==
  /\ turn.pc = "saving"
  /\ ~turn.written
  /\ turn' = Idle
  /\ lostWrites' = TRUE
  /\ op' = Op("writeRejected")
  /\ UNCHANGED <<debugEvents, historyIndex, loading, currentConversationId, messages,
                 conversations, selecting, modelChange, initPending, tick,
                 convCount, storeDown, alerts, backendVars>>

\* The turns and the bookkeeping appends of one conversation, with a store that
\* may fail at any moment.
NextFaulty ==
  \/ InitLoad
  \/ handleSendMessage
  \/ ChatCalled
  \/ ChatResolved
  \/ ChatRejected
  \/ handleModelChange
  \/ ModelChanged
  \/ GoLive
  \/ StoreFails
  \/ StoreRecovers
  \/ SendWriteRejected

SpecFaulty == Init /\ [][NextFaulty]_vars

\* Promises settle: a pending write of the user event and a pending completion
\* call are each answered.
SpecFaultyLive ==
  /\ SpecFaulty
  /\ WF_vars(ChatCalled)
  /\ WF_vars(ChatResolved \/ ChatRejected)
  /\ WF_vars(SendWriteRejected)

(* ====================== the frontend event log ======================== *)

\* The events of the log at indices 0..historyIndex.
Prefix == SubSeq(debugEvents, 1, historyIndex + 1)

\* An event the view shows as a message of its own.
ProducesMessage(e) ==
  \/ e.type = "request" /\ e.source = "frontend" /\ "content" \in DOMAIN e.data
  \/ e.type = "response" /\ e.source = "llm" /\ "message" \in DOMAIN e.data

\* The components of the tool_call events of a log.
ComponentsOf(events) ==
  {e.data.component : e \in {x \in Range(events) : "component" \in DOMAIN x.data}}

\* The operations that end in calls of addDebugEvent.
AppendOps == {"append", "chat", "resolved", "rejected", "reset", "selected"}

\* C1: in every reachable state the displayed messages are the reducer applied to
\* the events at indices 0..historyIndex and to nothing else: one message per
\* message-producing event of that prefix, in order and with its id, every attached
\* component taken from a tool_call event of that prefix, and no message at all
\* with the cursor at -1.
C1_ViewIsReducedPrefix ==
  LET shown == SelectSeq(Prefix, ProducesMessage)
  IN /\ messages = Messages(Prefix)
     /\ Len(messages) = Len(shown)
     /\ \A i \in 1..Len(messages) :
          /\ messages[i].id = shown[i].id
          /\ "uiComponents" \in DOMAIN messages[i]
               => Range(messages[i].uiComponents) \subseteq ComponentsOf(Prefix)
     /\ historyIndex = -1 => messages = <<>>

\* C1 witness: the cursor is below the tip, the view shows a message, and an event
\* beyond the cursor would produce another one.
C1_Witness ==
  /\ historyIndex < Len(debugEvents) - 1
  /\ messages # <<>>
  /\ \E i \in (historyIndex + 2)..Len(debugEvents) : ProducesMessage(debugEvents[i])

\* C2: in every reachable state -1 <= historyIndex <= length(debugEvents) - 1.
C2_CursorInRange ==
  /\ -1 <= historyIndex
  /\ historyIndex <= Len(debugEvents) - 1

\* C2 witness: while a turn is in flight and the log holds events, the slider has
\* moved the cursor back to -1, the start of the session.
C2_Witness ==
  /\ turn.pc = "calling"
  /\ op.name = "slider"
  /\ historyIndex = -1
  /\ Len(debugEvents) >= 2

\* C3: the calls of addDebugEvent an operation makes lengthen the log it works on
\* by exactly the events appended, the new events last and in order, the earlier
\* events unchanged, and leave the cursor on the new last index.
C3_AppendGoesLive ==
  [][op'.name \in AppendOps =>
       LET prev == CASE op'.name = "reset" -> <<>>
                     [] op'.name = "selected" -> getConversation(conversations, selecting.id)
                     [] OTHER -> debugEvents
           n == tick' - tick
       IN /\ n >= 1
          /\ Len(debugEvents') = Len(prev) + n
          /\ SubSeq(debugEvents', 1, Len(prev)) = prev
          /\ \A j \in 1..n : debugEvents'[Len(prev) + j].id = tick + j
          /\ historyIndex' = Len(debugEvents') - 1]_vars

\* C3 witness: an event was appended while the cursor was at a historical position.
C3_Witness ==
  /\ op.name \in {"append", "chat", "rejected"}
  /\ op.below
  /\ Len(debugEvents) >= 2
  /\ historyIndex = Len(debugEvents) - 1

\* C4: after an append (addDebugEvent, or the user event of handleSendMessage) the
\* events persisted under the current conversation id equal the in-memory log.
C4_AppendPersistedUnderCurrentId ==
  op.name \in AppendOps \cup {"send"}
    => getConversation(conversations, currentConversationId) = debugEvents

\* C5 as claimed: handleSendMessage removes no event of the in-memory log.
C5_SendRemovesNothing ==
  [][op'.name = "send" => Range(debugEvents) \subseteq Range(debugEvents')]_vars

\* C5 amended: handleSendMessage keeps the events at indices 0..historyIndex
\* unchanged, discards every event beyond the cursor, puts the new request event
\* right after the cursor position, and persists exactly that log under the
\* current conversation id.
C5_SendTruncatesAtCursor ==
  [][op'.name = "send" =>
       /\ Len(debugEvents') = historyIndex + 2
       /\ SubSeq(debugEvents', 1, historyIndex + 1) = SubSeq(debugEvents, 1, historyIndex + 1)
       /\ debugEvents'[historyIndex + 2] = UserEvent(tick + 1, Utterance)
       /\ historyIndex' = historyIndex + 1
       /\ getConversation(conversations', currentConversationId) = debugEvents']_vars

\* C5 witness: a message was sent with the cursor below the tip.
C5_Witness ==
  /\ op.name = "send"
  /\ op.below
  /\ debugEvents[Len(debugEvents)].data = [content |-> Utterance]

\* The ids of the assistant messages of a view.
AssistantIds(msgs) == {msgs[i].id : i \in {j \in 1..Len(msgs) : msgs[j].role = "assistant"}}

EventKinds ==
  << [type |-> "request", source |-> "frontend", data |-> [content |-> Utterance]],
     [type |-> "request", source |-> "frontend", data |-> [model |-> ModelName]],
     [type |-> "request", source |-> "backend", data |-> [messages |-> <<>>]],
     [type |-> "response", source |-> "llm",
      data |-> [message |-> [content |-> "hello"], usage |-> "usage"]],
     [type |-> "response", source |-> "llm", data |-> [message |-> [content |-> NullContent]]],
     [type |-> "response", source |-> "llm", data |-> [usage |-> "usage", toolCalls |-> 0]],
     [type |-> "tool_call", source |-> "llm",
      data |-> [toolCall |-> "render_ui_component", component |-> Component(0)]],
     [type |-> "thought", source |-> "llm", data |-> [reasoning |-> "because"]],
     [type |-> "error", source |-> "llm", data |-> [error |-> "HTTP 500"]],
     [type |-> "error", source |-> "backend", data |-> [error |-> "HTTP 500"]] >>

\* Date.now() of the i-th event of a stored log
StampOf(i) == 10 * i

\* The log whose i-th event has the shape EventKinds[ks[i]]; a component carries
\* the id generated for it.
LogOf(ks) ==
  [i \in 1..Len(ks) |->
     LET kind == EventKinds[ks[i]]
     IN [id |-> i, timestamp |-> StampOf(i), type |-> kind.type, source |-> kind.source,
         data |-> IF "component" \in DOMAIN kind.data
                  THEN [kind.data EXCEPT !.component = Component(i)]
                  ELSE kind.data]]

Logs == {LogOf(ks) : ks \in UNION {[1..n -> 1..Len(EventKinds)] : n \in 0..MaxLogLen}}

\* A stored log is loaded; the view is at the start of the session.
InitReduce ==
  /\ debugEvents \in Logs
  /\ historyIndex = -1
  /\ messages = <<>>
  /\ loading = FALSE
  /\ currentConversationId = 1
  /\ conversations = <<>>
  /\ turn = Idle
  /\ selecting = Idle
  /\ modelChange = Idle
  /\ initPending = FALSE
  /\ tick = 0
  /\ convCount = 1
  /\ op = [name |-> "mount", below |-> FALSE]
  /\ NoFaults
  /\ BackendStart

\* The cursor is moved over the log, and the view is reduced anew each time.
NextReduce ==
  \/ SetHistoryIndex
  \/ GoLive

SpecReduce == InitReduce /\ [][NextReduce]_vars

\* The cursor moves forward by one event.
StepsForward == historyIndex' = historyIndex + 1

\* The event a forward step brings into the prefix.
Entering == debugEvents[historyIndex + 2]

IsToolCall(e) == e.type = "tool_call" /\ e.source = "llm" /\ "component" \in DOMAIN e.data
IsResponse(e) == e.type = "response" /\ e.source = "llm" /\ "message" \in DOMAIN e.data
IsUserRequest(e) == e.type = "request" /\ e.source = "frontend" /\ "content" \in DOMAIN e.data
IsThought(e) == e.type = "thought" /\ e.source = "llm" /\ "reasoning" \in DOMAIN e.data

LastIsAssistant(msgs) == msgs # <<>> /\ msgs[Len(msgs)].role = "assistant"

\* msgs2 is msgs1 with field f of its last message set to v, and nothing else changed.
OnlyLastField(msgs1, msgs2, f, v) ==
  /\ Len(msgs2) = Len(msgs1)
  /\ \A i \in 1..(Len(msgs1) - 1) : msgs2[i] = msgs1[i]
  /\ msgs2[Len(msgs2)][f] = v
  /\ DOMAIN msgs2[Len(msgs2)] = DOMAIN msgs1[Len(msgs1)] \cup {f}
  /\ \A k \in DOMAIN msgs1[Len(msgs1)] \ {f} : msgs2[Len(msgs2)][k] = msgs1[Len(msgs1)][k]

\* C6: when a tool_call/llm event carrying a component enters the prefix, the
\* component is appended to the uiComponents of the last message if that message
\* has role assistant, and otherwise the view is unchanged (no message is created);
\* so after a response event that carries a message the component goes to that
\* response's message, after the components attached before it.
C6_ToolCallAttachesToLastAssistant ==
  [][StepsForward /\ IsToolCall(Entering) =>
       /\ IF LastIsAssistant(messages)
          THEN OnlyLastField(messages, messages', "uiComponents",
                 Append(messages[Len(messages)].uiComponents, Entering.data.component))
          ELSE messages' = messages
       /\ historyIndex >= 0 /\ IsResponse(debugEvents[historyIndex + 1])
            => /\ messages'[Len(messages')].id = debugEvents[historyIndex + 1].id
               /\ messages'[Len(messages')].uiComponents = <<Entering.data.component>>]_vars

\* C6 witness: a tool_call event right after the second of two response events is
\* in the prefix; its component is on the second assistant message and not on the
\* first.
C6_Witness ==
  /\ historyIndex = 2
  /\ IsToolCall(debugEvents[3])
  /\ IsResponse(debugEvents[2])
  /\ Len(messages) = 2
  /\ messages[1].role = "assistant"
  /\ messages[1].uiComponents = <<>>
  /\ messages[2].uiComponents = <<debugEvents[3].data.component>>

\* The message the view shows for a message-producing event.
MessageFor(e) ==
  IF IsUserRequest(e)
  THEN [id |-> e.id, role |-> "user", content |-> e.data.content, timestamp |-> e.timestamp]
  ELSE [id |-> e.id, role |-> "assistant",
        content |-> IF e.data.message.content = NullContent
                    THEN EmptyString ELSE e.data.message.content,
        timestamp |-> e.timestamp,
        usage |-> IF "usage" \in DOMAIN e.data THEN e.data.usage ELSE Undefined]

\* C7: for every prefix the view has exactly one message per request/frontend event
\* with data.content and per response/llm event with data.message, in log order,
\* with the id, timestamp, role, content (the empty string for a response without
\* text) and usage of its event; no other event has a message.
C7_OneMessagePerContentEvent ==
  LET shown == SelectSeq(Prefix, LAMBDA e : IsUserRequest(e) \/ IsResponse(e))
  IN /\ Len(messages) = Len(shown)
     /\ \A i \in 1..Len(messages) :
          \A f \in DOMAIN MessageFor(shown[i]) :
            f \in DOMAIN messages[i] /\ messages[i][f] = MessageFor(shown[i])[f]

\* C7 witness: a prefix of three events of which two have a message, one of them a
\* response without text, and one (an error, a bookkeeping or a backend event) has
\* none.
C7_Witness ==
  /\ historyIndex = 2
  /\ Len(messages) = 2
  /\ \E i \in 1..2 : messages[i].role = "assistant" /\ messages[i].content = EmptyString
  /\ \E i \in 1..2 : messages[i].role = "user"
  /\ \E i \in 1..3 : debugEvents[i].type = "error" \/ debugEvents[i].source = "backend"

\* C8 as claimed: a thought/llm event sets the reasoning of the most recent
\* assistant message whenever the prefix has produced an assistant message.
C8_ThoughtReachesLastAssistant ==
  [][StepsForward /\ IsThought(Entering) /\ AssistantIds(messages) # {} =>
       \E i \in 1..Len(messages') :
         /\ messages'[i].role = "assistant"
         /\ \A j \in (i + 1)..Len(messages') : messages'[j].role # "assistant"
         /\ "reasoning" \in DOMAIN messages'[i]
         /\ messages'[i].reasoning = Entering.data.reasoning]_vars

\* C8 amended: a thought/llm event carrying data.reasoning sets the reasoning of
\* the most recently pushed message if that message has role assistant; otherwise
\* (no message yet, or a user message pushed last) it is dropped and the view is
\* unchanged.
C8_ThoughtAttachesToLastMessageIfAssistant ==
  [][StepsForward /\ IsThought(Entering) =>
       IF LastIsAssistant(messages)
       THEN OnlyLastField(messages, messages', "reasoning", Entering.data.reasoning)
       ELSE messages' = messages]_vars

\* C8 witness: a thought event has entered the prefix after an assistant message
\* and a later user message; no message carries its reasoning.
C8_Witness ==
  /\ historyIndex = 2
  /\ IsThought(debugEvents[3])
  /\ Len(messages) = 2
  /\ messages[1].role = "assistant"
  /\ messages[2].role = "user"
  /\ \A i \in 1..2 : "reasoning" \notin DOMAIN messages[i]

\* The fields of a message that a later event of its turn may set.
TurnFields == {"uiComponents", "reasoning"}

\* C28: for every log and every cursor position, moving the cursor forward by one
\* event leaves the view as it was, or adds one message at its end, or changes the
\* uiComponents or the reasoning of its last message and nothing else: every
\* message shown before the last one is identical after the step, the last one
\* keeps its id, role, content and every other field, and the number of messages
\* does not decrease.
C28_ReducerIsMonotone ==
  [][StepsForward =>
       /\ Len(messages') >= Len(messages)
       /\ \A i \in 1..(Len(messages) - 1) : messages'[i] = messages[i]
       /\ \/ messages' = messages
          \/ /\ Len(messages') = Len(messages) + 1
             /\ SubSeq(messages', 1, Len(messages)) = messages
          \/ /\ Len(messages') = Len(messages)
             /\ messages # <<>>
             /\ LET before == messages[Len(messages)]
                    after == messages'[Len(messages)]
                IN /\ DOMAIN before \subseteq DOMAIN after
                   /\ DOMAIN after \subseteq DOMAIN before \cup TurnFields
                   /\ \A f \in DOMAIN before \ TurnFields : after[f] = before[f]]_vars

\* C28 witness: the cursor has reached the third event of a log whose first event
\* produced an assistant message and whose two next events changed that message,
\* one its components and one its reasoning; the view still has one message.
C28_Witness ==
  /\ historyIndex = 2
  /\ op.name = "slider"
  /\ Len(messages) = 1
  /\ messages[1].id = debugEvents[1].id
  /\ messages[1].uiComponents # <<>>
  /\ "reasoning" \in DOMAIN messages[1]

(* ============================== backend =============================== *)

\* storage.ts  loadConversation: the file's messages, [] when there is no file
Storage_loadConversation(files, id) ==
  IF files[id].exists THEN files[id].messages ELSE <<>>

\* storage.ts  saveConversation: writeFileSync replaces the file
Storage_saveConversation(files, id, msgs) ==
  [files EXCEPT ![id] = [exists |-> TRUE, messages |-> msgs]]

\* storage.ts  listConversations: the ids that have a file
Storage_listConversations(files) == {c \in DOMAIN files : files[c].exists}

BackendEvent(type, source, data) == [type |-> type, source |-> source, data |-> data]

SystemPrompt == [role |-> "system", content |-> "A2UI"]

\* index.ts:256-263
IncomingEvent(message) == BackendEvent("request", "frontend", [message |-> message])

\* part_001:47-54
LLMRequestEvent(msgs) == BackendEvent("request", "backend", [messages |-> msgs])

\* The tool calls a completion may carry: render_ui_component with well-formed
\* arguments, the same with an id of the model's own in the arguments, one whose
\* arguments JSON.parse rejects, and a call of another function.
ToolCallKinds ==
  { [name |-> "render_ui_component", parses |-> TRUE,
     args |-> [type |-> "button", props |-> "label"]],
    [name |-> "render_ui_component", parses |-> TRUE,
     args |-> [id |-> 0, type |-> "card", props |-> "title"]],
    [name |-> "render_ui_component", parses |-> FALSE, args |-> [raw |-> "{not json"]],
    [name |-> "get_weather", parses |-> TRUE, args |-> [type |-> "button", props |-> "label"]] }

ToolCallListsUpTo(n) == UNION {[1..k -> ToolCallKinds] : k \in 0..n}

\* The calls POST /api/chat is exercised with: well-formed render_ui_component
\* calls without an id of the model's own (the other kinds are exercised on one
\* call of LLMService.chat below).
WellFormedRenderCalls ==
  {k \in ToolCallKinds :
     k.name = "render_ui_component" /\ k.parses /\ "id" \notin DOMAIN k.args}

ToolCallLists == UNION {[1..k -> WellFormedRenderCalls] : k \in 0..MaxToolCalls}

\* part_001:103-108  the component built from parsed arguments; uuid is the value
\* uuidv4() returns
NewComponent_TrustsModelId(args, uuid) ==
  [id |-> IF "id" \in DOMAIN args THEN args.id ELSE uuid,
   type |-> args.type, props |-> args.props]
NewComponent(args, uuid) == [id |-> uuid, type |-> args.type, props |-> args.props]

\* part_001:100-124  one turn of the for loop over choice.message.tool_calls; acc
\* holds the uiComponents and debugEvents arrays, uuid the id generated in this turn
ToolCallStep_MalformedStillReported(acc, toolCall, uuid) ==
  IF toolCall.name # "render_ui_component" THEN acc
  ELSE IF toolCall.parses
  THEN [acc EXCEPT
          !.uiComponents = Append(@, NewComponent(toolCall.args, uuid)),
          !.debugEvents = Append(@, BackendEvent("tool_call", "llm",
             [toolCall |-> toolCall.name, component |-> NewComponent(toolCall.args, uuid)]))]
  ELSE [acc EXCEPT
          !.debugEvents = Append(@, BackendEvent("tool_call", "llm",
             [toolCall |-> toolCall.name,
              component |-> [id |-> uuid, type |-> "unknown", props |-> ""]]))]
ToolCallStep(acc, toolCall, uuid) ==
  IF toolCall.name = "render_ui_component"
  THEN IF toolCall.parses
       THEN [acc EXCEPT
               !.uiComponents = Append(@, NewComponent(toolCall.args, uuid)),
               !.debugEvents = Append(@, BackendEvent("tool_call", "llm",
                  [toolCall |-> toolCall.name,
                   component |-> NewComponent(toolCall.args, uuid)]))]
       ELSE acc
  ELSE acc

\* part_001:99-125  the loop over the tool calls, from the i-th on; the id
\* generated in the i-th turn is i
RECURSIVE ToolCallLoop(_, _, _)
ToolCallLoop(calls, i, acc) ==
  IF i > Len(calls) THEN acc
  ELSE ToolCallLoop(calls, i + 1, ToolCallStep(acc, calls[i], i))

\* part_001:128-139
LLMResponseEvent(calls) ==
  BackendEvent("response", "llm", [usage |-> "usage", model |-> ModelName, toolCalls |-> Len(calls)])

\* part_001:141-147  uiComponents is undefined when no call produced a component
ResponseMessage(content, uiComponents) ==
  IF uiComponents = <<>>
  THEN [role |-> "assistant", content |-> OrEmpty(content)]
  ELSE [role |-> "assistant", content |-> OrEmpty(content), uiComponents |-> uiComponents]

\* part_001:95-149  chat() after the completion has arrived: the events collected
\* and the message returned
chatFinish(collected, calls, content) ==
  LET looped == ToolCallLoop(calls, 1,
                  [uiComponents |-> <<>>, debugEvents |-> collected])
  IN [message |-> ResponseMessage(content, looped.uiComponents),
      debugEvents |-> Append(looped.debugEvents, LLMResponseEvent(calls))]

\* part_001:150-160  the error event chat() pushes into its own list before rethrowing
LLMErrorEvent(message) == BackendEvent("error", "llm", [error |-> message])

\* index.ts:296-304  the events the route's catch block broadcasts
chatCatch_WithCollected(collected, message) ==
  collected \o <<BackendEvent("error", "backend", [error |-> message])>>
chatCatch(collected, message) ==
  <<BackendEvent("error", "backend", [error |-> message])>>

\* index.ts:306 and 216, 220
ErrorBody(message) == [error |-> message]

Respond(req, status, body, failure) ==
  [req EXCEPT !.pc = "done", !.status = status, !.body = body, !.failure = failure]

\* The bodies POST /api/config is called with (types/index.ts:13-19): a key and an
\* endpoint, either of which may be the empty string, and each of the optional
\* fields present or not.
ApiKeys == {"", "sk-A", "sk-B"}
ApiEndpoints == {"", "https://a", "https://b"}
Absent == [f \in {} |-> ""]
ConfigBodies ==
  {required @@ model @@ version @@ deployment :
     required \in [apiKey : ApiKeys, apiEndpoint : ApiEndpoints],
     model \in {Absent} \cup [model : {"gpt-4", "gpt-3.5"}],
     version \in {Absent} \cup [azureApiVersion : {"2024-02"}],
     deployment \in {Absent} \cup [azureDeployment : {"prod"}]}

\* index.ts:179-181
configRefused(config) == config.apiKey = "" \/ config.apiEndpoint = ""

\* index.ts:175-192  POST /api/config: a body that passes the validation is
\* written to data/config.json and given to llmService.configure
PostConfig(config) ==
  /\ IF configRefused(config)
     THEN /\ configReply' = [route |-> "POST", status |-> 400,
                             body |-> [error |-> "Missing required configuration"]]
          /\ UNCHANGED <<configFile, llmConfigured>>
     ELSE /\ configFile' = config
          /\ llmConfigured' = TRUE
          /\ configReply' = [route |-> "POST", status |-> 200,
                             body |-> [success |-> TRUE, message |-> "Configuration saved"]]
  /\ UNCHANGED <<conversationFiles, requests, broadcasts, frontendVars>>

\* The configuration the service is given where its content is of no interest.
DefaultConfig == [apiKey |-> "sk-A", apiEndpoint |-> "https://a"]

\* index.ts:175-192  the first POST /api/config that is accepted
Configure ==
  /\ ~llmConfigured
  /\ PostConfig(DefaultConfig)

\* index.ts:199-202  const { apiKey, ...safeConfig } = config;
\* { ...safeConfig, configured: true }
safeConfigBody_Whole(config) ==
  [f \in DOMAIN config \cup {"configured"} |->
     IF f = "configured" THEN TRUE ELSE config[f]]
safeConfigBody(config) ==
  [f \in (DOMAIN config \ {"apiKey"}) \cup {"configured"} |->
     IF f = "configured" THEN TRUE ELSE config[f]]

\* index.ts:194-208  the body GET /api/config answers with for a stored file
getConfigBody(file) ==
  IF file = NoConfig THEN [configured |-> FALSE] ELSE safeConfigBody(file)

\* index.ts:194-208  GET /api/config
GetConfig ==
  /\ configReply' = [route |-> "GET", status |-> 200, body |-> getConfigBody(configFile)]
  /\ UNCHANGED <<configFile, llmConfigured, conversationFiles, requests, broadcasts,
                 frontendVars>>

\* index.ts:215-221  the reason the route refuses a call with 400, "" when it
\* accepts it
chatRefusal_NoConfigCheck(message, configured) ==
  IF message = EmptyString THEN "Message is required" ELSE ""
chatRefusal(message, configured) ==
  IF message = EmptyString THEN "Message is required"
  ELSE IF ~configured THEN "LLM service not configured"
  ELSE ""

\* part_001:39-54  LLMService.chat up to its try block: it throws on an
\* unconfigured service, before its event list exists
chatStart(configured, msgs) ==
  IF ~configured
  THEN [thrown |-> TRUE, error |-> "LLM service not configured", debugEvents |-> <<>>]
  ELSE [thrown |-> FALSE, error |-> "", debugEvents |-> <<LLMRequestEvent(msgs)>>]

\* index.ts:228-253  the system prompt is pushed when the loaded history is empty
WithSystemPrompt_Always(loaded) == <<SystemPrompt>> \o loaded
WithSystemPrompt(loaded) == IF Len(loaded) = 0 THEN <<SystemPrompt>> ELSE loaded

\* index.ts:211-277 and part_001:39-93: POST /api/chat up to the await of the
\* completion. Calls are numbered in order of arrival.
PostChat(r) ==
  /\ requests[r].pc = "new"
  /\ r > 1 => requests[r - 1].pc # "new"
  /\ \E message \in {EmptyString, Utterance}, conversationId \in {0, 1} :
       LET received == [requests[r] EXCEPT !.message = message]
           refusal == chatRefusal(message, llmConfigured)
       IN IF refusal # ""
          THEN /\ requests' = [requests EXCEPT ![r] =
                    Respond(received, 400, ErrorBody(refusal), "none")]
               /\ UNCHANGED broadcasts
          ELSE LET convId == IF conversationId = 0 THEN 1 + r ELSE conversationId
                   loaded == Storage_loadConversation(conversationFiles, convId)
                   msgs == Append(WithSystemPrompt(loaded),
                                  [role |-> "user", content |-> message])
                   started == chatStart(llmConfigured, msgs)
                   accepted == [received EXCEPT !.convId = convId, !.messages = msgs,
                                                !.debugEvents = started.debugEvents]
               IN IF started.thrown
                  THEN /\ broadcasts' = [broadcasts EXCEPT ![r] =
                            <<IncomingEvent(message)>>
                              \o chatCatch(started.debugEvents, started.error)]
                       /\ requests' = [requests EXCEPT ![r] =
                            Respond(accepted, 500, ErrorBody(started.error), "unconfigured")]
                  ELSE /\ broadcasts' = [broadcasts EXCEPT ![r] = <<IncomingEvent(message)>>]
                       /\ requests' = [requests EXCEPT ![r] =
                            [accepted EXCEPT !.pc = "awaiting"]]
  /\ UNCHANGED <<llmConfigured, conversationFiles, configVars, frontendVars>>

\* part_001:95-149 and index.ts:277-292 (293-307 when the write throws): the
\* completion resolves with a well-formed body carrying one of the given lists of
\* tool calls.
CompletionResolvedWith(r, lists) ==
  /\ requests[r].pc = "awaiting"
  /\ \E calls \in lists, content \in {"hello", NullContent}, written \in BOOLEAN :
       LET req == requests[r]
           finished == chatFinish(req.debugEvents, calls, content)
           collected == finished.debugEvents
           assistantMessage == finished.message
           msgs == Append(req.messages, assistantMessage)
           returned == [req EXCEPT !.messages = msgs, !.debugEvents = collected,
                                   !.calls = calls, !.content = content]
       IN IF written
          THEN /\ broadcasts' = [broadcasts EXCEPT ![r] = @ \o collected]
               /\ conversationFiles' = Storage_saveConversation(conversationFiles, req.convId, msgs)
               /\ requests' = [requests EXCEPT ![r] =
                    Respond(returned, 200,
                            [message |-> assistantMessage, conversationId |-> req.convId,
                             debugEvents |-> <<IncomingEvent(req.message)>> \o collected],
                            "none")]
          ELSE /\ broadcasts' = [broadcasts EXCEPT ![r] =
                    @ \o collected \o chatCatch(collected, "ENOSPC")]
               /\ UNCHANGED conversationFiles
               /\ requests' = [requests EXCEPT ![r] =
                    Respond(returned, 500, ErrorBody("ENOSPC"), "storage")]
  /\ UNCHANGED <<llmConfigured, configVars, frontendVars>>

CompletionResolved(r) == CompletionResolvedWith(r, ToolCallLists)

\* part_001:84-97, 150-162 and index.ts:293-307: the completion call rejects (a
\* network error or a non-2xx status), or its body has no choices and reading
\* choices[0].message throws; chat() records the error in its own list and
\* rethrows, and the route's catch block answers.
CompletionRejected(r) ==
  /\ requests[r].pc = "awaiting"
  /\ \E message \in {"HTTP 500", "Cannot read properties of undefined"} :
       LET req == requests[r]
           collected == Append(req.debugEvents, LLMErrorEvent(message))
       IN /\ broadcasts' = [broadcasts EXCEPT ![r] = @ \o chatCatch(collected, message)]
          /\ requests' = [requests EXCEPT ![r] =
               Respond([req EXCEPT !.debugEvents = collected], 500,
                       ErrorBody(message), "completion")]
  /\ UNCHANGED <<llmConfigured, conversationFiles, configVars, frontendVars>>

InitBackend ==
  /\ BackendStart
  /\ debugEvents = <<>>
  /\ historyIndex = -1
  /\ messages = <<>>
  /\ loading = FALSE
  /\ currentConversationId = 1
  /\ conversations = <<>>
  /\ turn = Idle
  /\ selecting = Idle
  /\ modelChange = Idle
  /\ initPending = FALSE
  /\ tick = 0
  /\ convCount = 1
  /\ op = [name |-> "mount", below |-> FALSE]
  /\ NoFaults

NextBackend ==
  \/ Configure
  \/ \E r \in Requests : PostChat(r)
  \/ \E r \in Requests : CompletionResolved(r)
  \/ \E r \in Requests : CompletionRejected(r)

SpecBackend == InitBackend /\ [][NextBackend]_vars

EventsOfType(events, type) == SelectSeq(events, LAMBDA e : e.type = type)

\* C9: for every POST /api/chat whose completion call failed, the events published
\* for the call are the incoming request event followed by exactly one error event
\* whose data.error is the failure message; no response and no tool_call event is
\* published; the answer is HTTP 500 carrying the message; and none of the events
\* LLMService.chat collected before rethrowing is published.
C9_FailedCompletionPublishesOneError ==
  \A r \in Requests :
    requests[r].failure = "completion" =>
      LET published == broadcasts[r]
          errors == EventsOfType(published, "error")
      IN /\ Len(errors) = 1
         /\ errors[1].data.error = requests[r].body.error
         /\ errors[1] = published[Len(published)]
         /\ EventsOfType(published, "response") = <<>>
         /\ EventsOfType(published, "tool_call") = <<>>
         /\ requests[r].status = 500
         /\ DOMAIN requests[r].body = {"error"}
         /\ \A i \in 1..Len(requests[r].debugEvents) :
              \A j \in 1..Len(published) : published[j] # requests[r].debugEvents[i]
         /\ Len(published) = 2

\* C9 witness: a call has been answered after its completion failed, LLMService.chat
\* having collected its request event and its error event, while an earlier call
\* succeeded and had its events published.
C9_Witness ==
  /\ requests[2].failure = "completion"
  /\ Len(requests[2].debugEvents) = 2
  /\ requests[1].status = 200
  /\ EventsOfType(broadcasts[1], "response") # <<>>

\* C11: a POST /api/chat call whose utterance is empty, or that arrives while the
\* LLM service is not configured, is answered 400 in the step that receives it,
\* with no event published, no completion call started (the call never awaits and
\* LLMService.chat has collected nothing) and every stored conversation unchanged;
\* the service is unconfigured at start, only the configuration step changes that,
\* and once configured it stays configured; and chat() on an unconfigured service
\* throws with no event created.
C11_RefusedBeforeAnythingIsRecorded ==
  [][/\ \A r \in Requests :
          /\ requests[r].pc = "new"
          /\ requests'[r].pc # "new"
          /\ requests'[r].message = EmptyString \/ ~llmConfigured
          => /\ requests'[r].pc = "done"
             /\ requests'[r].status = 400
             /\ DOMAIN requests'[r].body = {"error"}
             /\ requests'[r].debugEvents = <<>>
             /\ broadcasts' = broadcasts
             /\ conversationFiles' = conversationFiles
     /\ llmConfigured => llmConfigured'
     /\ llmConfigured' # llmConfigured => requests' = requests /\ broadcasts' = broadcasts
     /\ ~llmConfigured =>
          \A conv \in BackendConvIds :
            LET started == chatStart(llmConfigured,
                                     Storage_loadConversation(conversationFiles, conv))
            IN started.thrown /\ started.debugEvents = <<>>]_vars

\* C11 witness: one call with an utterance was refused because the service was not
\* configured, and a later call was refused for its empty utterance after the
\* service had been configured; nothing was published or stored.
C11_Witness ==
  /\ llmConfigured
  /\ requests[1].status = 400
  /\ requests[1].message = Utterance
  /\ requests[2].status = 400
  /\ requests[2].message = EmptyString
  /\ \A r \in Requests : broadcasts[r] = <<>>
  /\ \A c \in BackendConvIds : ~conversationFiles[c].exists

\* A stored history of the shape system, user, assistant, user, assistant, ...
RolesAlternate(msgs) ==
  /\ Len(msgs) >= 3
  /\ Len(msgs) % 2 = 1
  /\ msgs[1] = SystemPrompt
  /\ \A i \in 2..Len(msgs) :
       msgs[i].role = IF i % 2 = 0 THEN "user" ELSE "assistant"

\* C20: over every interleaving of POST /api/chat calls that succeed, are refused
\* or fail, on conversation ids that may coincide, every conversation file holds
\* exactly one system message, the first one, followed by user and assistant
\* messages in strict alternation and ending with an assistant message; and the
\* history a call hands to the completion is the stored history, or the system
\* prompt alone when there is none, followed by the call's user message; a call
\* that writes, writes the history it handed over followed by the assistant
\* message it received.
C20_SystemPromptInjectedOnce ==
  [][/\ \A c \in BackendConvIds :
          conversationFiles'[c].exists =>
            /\ RolesAlternate(conversationFiles'[c].messages)
            /\ Len(SelectSeq(conversationFiles'[c].messages,
                              LAMBDA m : m.role = "system")) = 1
     /\ \A r \in Requests :
          /\ requests[r].pc = "new" /\ requests'[r].debugEvents # <<>>
               => LET stored == Storage_loadConversation(conversationFiles,
                                                         requests'[r].convId)
                      user == [role |-> "user", content |-> requests'[r].message]
                  IN /\ requests'[r].debugEvents[1].data.messages
                          = IF stored = <<>> THEN <<SystemPrompt, user>>
                            ELSE Append(stored, user)
                     /\ requests'[r].messages = requests'[r].debugEvents[1].data.messages
          /\ requests[r].pc = "awaiting" /\ requests'[r].status = 200
               => /\ conversationFiles'[requests[r].convId].messages
                       = Append(requests[r].messages, requests'[r].body.message)
                  /\ \A c \in BackendConvIds \ {requests[r].convId} :
                       conversationFiles'[c] = conversationFiles[c]]_vars

\* C20 witness: two calls on one conversation id have succeeded one after the
\* other; the second loaded the three messages the first had stored, and the file
\* holds five messages with the system prompt first and nowhere else.
C20_Witness ==
  /\ requests[1].status = 200
  /\ requests[2].status = 200
  /\ requests[1].convId = requests[2].convId
  /\ Len(requests[2].debugEvents[1].data.messages) = 4
  /\ Len(conversationFiles[requests[2].convId].messages) = 5

\* The calls answered 200 on conversation c.
Succeeded(c) == {r \in Requests : requests[r].status = 200 /\ requests[r].convId = c}

\* C25: whatever the overlap of the POST /api/chat calls on one conversation id,
\* the file of the conversation holds the turn of every call that succeeded on
\* it: after the system prompt it has one user message and one assistant message
\* per such call, and the user message and the reply of each such call are in
\* it, adjacent and in that order.
C25_OverlappingTurnsAreAllStored ==
  \A c \in BackendConvIds :
    conversationFiles[c].exists =>
      LET stored == conversationFiles[c].messages
      IN /\ Len(stored) = 1 + 2 * Cardinality(Succeeded(c))
         /\ \A r \in Succeeded(c) :
              \E i \in 2..(Len(stored) - 1) :
                /\ stored[i] = [role |-> "user", content |-> requests[r].message]
                /\ stored[i + 1] = requests[r].body.message

\* C26: when the completion call of a POST /api/chat call fails, the conversation
\* stored under the call's id afterwards contains the user message of the call,
\* and what follows it, if anything, is not an assistant message.
C26_FailedTurnKeepsUserMessage ==
  [][\A r \in Requests :
       requests[r].pc = "awaiting" /\ requests'[r].failure = "completion"
         => LET stored == Storage_loadConversation(conversationFiles', requests[r].convId)
            IN \E i \in 1..Len(stored) :
                 /\ stored[i] = [role |-> "user", content |-> requests[r].message]
                 /\ i < Len(stored) => stored[i + 1].role # "assistant"]_vars

(* ===================== one call of LLMService.chat ==================== *)

\* The completion of the first call resolves with up to MaxCompletionToolCalls
\* tool calls.
LongCompletionResolved ==
  CompletionResolvedWith(1, ToolCallListsUpTo(MaxCompletionToolCalls))

\* One POST /api/chat call is followed through LLMService.chat.
NextLLM ==
  \/ Configure
  \/ PostChat(1)
  \/ LongCompletionResolved
  \/ CompletionRejected(1)

SpecLLM == InitBackend /\ [][NextLLM]_vars

\* The first call's completion has resolved and chat() has returned.
ChatReturned == requests[1].pc = "done" /\ requests[1].failure \in {"none", "storage"}
                  /\ requests[1].status # 400

\* The positions, in order, of the tool calls of the given property.
CallsWhere(calls, P(_)) ==
  SelectSeq([i \in 1..Len(calls) |-> i], LAMBDA i : P(calls[i]))

Renders(toolCall) == toolCall.name = "render_ui_component" /\ toolCall.parses
Malformed(toolCall) == toolCall.name = "render_ui_component" /\ ~toolCall.parses

\* The events chat() collected, and the message it returned, for the first call.
ChatEvents == requests[1].debugEvents
ChatMessage == requests[1].messages[Len(requests[1].messages)]
ChatComponents ==
  IF "uiComponents" \in DOMAIN ChatMessage THEN ChatMessage.uiComponents ELSE <<>>

\* C12: when chat() has returned, a render_ui_component call with malformed
\* arguments has left no component and no tool_call event (none carries the id of
\* its turn of the loop), every well-formed render_ui_component call, before or
\* after it, has its component and its event, in the order of the calls, the
\* response event is there, and the assistant message is returned.
C12_MalformedToolCallIsSkipped ==
  ChatReturned =>
    LET calls == requests[1].calls
        toolEvents == EventsOfType(ChatEvents, "tool_call")
        good == CallsWhere(calls, Renders)
        bad == CallsWhere(calls, Malformed)
    IN /\ \A k \in 1..Len(bad) :
            /\ \A j \in 1..Len(ChatComponents) : ChatComponents[j].id # bad[k]
            /\ \A j \in 1..Len(toolEvents) : toolEvents[j].data.component.id # bad[k]
       /\ Len(ChatComponents) = Len(good)
       /\ Len(toolEvents) = Len(good)
       /\ \A j \in 1..Len(good) :
            /\ ChatComponents[j].id = good[j]
            /\ toolEvents[j].data.component.id = good[j]
       /\ Len(EventsOfType(ChatEvents, "response")) = 1
       /\ EventsOfType(ChatEvents, "error") = <<>>
       /\ ChatMessage.role = "assistant"
       /\ ChatMessage.content = OrEmpty(requests[1].content)

\* C12 witness: chat() has returned for a completion whose second of three tool
\* calls was malformed and whose first and third were well formed; the message
\* carries two components.
C12_Witness ==
  /\ ChatReturned
  /\ requests[1].status = 200
  /\ Len(requests[1].calls) = 3
  /\ Renders(requests[1].calls[1])
  /\ Malformed(requests[1].calls[2])
  /\ Renders(requests[1].calls[3])
  /\ Len(requests[1].body.message.uiComponents) = 2

OtherFunction(toolCall) == toolCall.name # "render_ui_component"

\* C13: when chat() has returned, its tool_call events are one per well-formed
\* render_ui_component call, in the order of the calls, and the returned message
\* carries the same components in the same order; a call of another function has
\* neither; each component has the id generated in its turn of the loop, which
\* differs from every other component's and from any id in the model's arguments,
\* and the type and props of the arguments; and the events hold at least one
\* request event and exactly one response event.
C13_OneToolCallEventPerComponent ==
  ChatReturned =>
    LET calls == requests[1].calls
        toolEvents == EventsOfType(ChatEvents, "tool_call")
        good == CallsWhere(calls, Renders)
        other == CallsWhere(calls, OtherFunction)
    IN /\ Len(toolEvents) = Len(ChatComponents)
       /\ Len(toolEvents) = Len(good)
       /\ \A j \in 1..Len(good) :
            LET args == calls[good[j]].args
                component == ChatComponents[j]
            IN /\ toolEvents[j].data.component = component
               /\ toolEvents[j].source = "llm"
               /\ component.type = args.type
               /\ component.props = args.props
               /\ component.id = good[j]
               /\ "id" \in DOMAIN args => component.id # args.id
               /\ \A k \in 1..Len(good) : k # j => ChatComponents[k].id # component.id
               /\ \A k \in 1..Len(other) : component.id # other[k]
       /\ Len(EventsOfType(ChatEvents, "request")) >= 1
       /\ Len(EventsOfType(ChatEvents, "response")) = 1

\* C13 witness: chat() has returned for a completion of three tool calls: one of
\* another function, a well-formed one whose arguments carry an id of the model's,
\* and a second well-formed one; two components were produced.
C13_Witness ==
  /\ ChatReturned
  /\ requests[1].status = 200
  /\ Len(requests[1].calls) = 3
  /\ OtherFunction(requests[1].calls[1])
  /\ Renders(requests[1].calls[2])
  /\ "id" \in DOMAIN requests[1].calls[2].args
  /\ Renders(requests[1].calls[3])
  /\ Len(ChatComponents) = 2

\* The positions in a sequence of events of the events of a type.
PositionsOfType(events, type) == {i \in 1..Len(events) : events[i].type = type}

\* C14: in the events chat() collected for a turn that succeeded, the response
\* event comes before every tool_call event, so that the reducer, replaying them,
\* finds the turn's own assistant message last when a component arrives.
C14_ResponseBeforeToolCalls ==
  ChatReturned =>
    /\ \A i \in PositionsOfType(ChatEvents, "tool_call") :
         \E j \in PositionsOfType(ChatEvents, "response") : j < i
    /\ LET replayed == Messages([i \in 1..Len(ChatEvents) |->
                          NewEvent(i, ChatEvents[i].type, ChatEvents[i].source,
                                   ChatEvents[i].data)])
       IN PositionsOfType(ChatEvents, "tool_call") # {}
            => /\ replayed # <<>>
               /\ Len(replayed[Len(replayed)].uiComponents) = Len(ChatComponents)

\* C15: at most one turn is in flight: loading is true for as long as a call of
\* handleSendMessage has not settled, it is reset only by the step in which the
\* completion call settles, and a submit is accepted (a request event appended, a
\* completion call then started) only when loading is false, no turn is in flight
\* and the trimmed input is not empty, whatever the user did in between.
C15_OneTurnInFlight ==
  [][/\ turn # Idle => loading
     /\ turn # Idle => op'.name # "send"
     /\ op'.name = "send" =>
          /\ ~loading
          /\ turn = Idle
          /\ debugEvents'[Len(debugEvents')].data.content # EmptyString
     /\ op'.name = "chat" => turn.pc = "saving" /\ turn'.userEvent = turn.userEvent
     /\ loading /\ ~loading' => op'.name \in {"resolved", "rejected"} /\ turn' = Idle]_vars

\* C15 witness: while a turn is in flight and loading is true, the user has
\* started a new conversation, which is now the current one.
C15_Witness ==
  /\ turn # Idle
  /\ loading
  /\ op.name = "reset"
  /\ turn.convId # currentConversationId

\* C16: every call of handleSendMessage settles with the form usable again:
\* whenever loading is true it eventually becomes false, whether the write of the
\* user event and the completion call resolve or reject (a run that has used up
\* its events is left aside).
C16_EverySendSettles ==
  (loading /\ tick < MaxEvents) ~> (~loading \/ tick >= MaxEvents)

\* The message of the rejection of a write (a DOMException of IndexedDB).
StoreError == "QuotaExceededError"

\* C17: a rejected write of an appended event is reported: in no state does the
\* in-memory log show an event that is in no stored record, a write of an append
\* having been rejected, without the store's error having been shown to the user.
C17_FailedWriteIsReported ==
  /\ lostWrites
  /\ \E i \in 1..Len(debugEvents) :
       \A k \in 1..Len(conversations) : debugEvents[i] \notin Range(conversations[k].events)
  => StoreError \in alerts

(* ========================= the configuration ========================== *)

NextConfig ==
  \/ \E config \in ConfigBodies : PostConfig(config)
  \/ GetConfig

SpecConfig == InitBackend /\ [][NextConfig]_vars

\* C21: after any sequence of POST /api/config calls, accepted or refused, an
\* answer of GET /api/config has no apiKey field; it is the answer the route would
\* give were the stored key any other key, the rest of the stored configuration
\* being the same; it carries every other stored field with its value; and the
\* file is stored with its key.
C21_GetConfigOmitsApiKey ==
  [][configReply'.route = "GET"
       => /\ "apiKey" \notin DOMAIN configReply'.body
          /\ configFile' # NoConfig /\ configReply' # configReply
               => /\ \A key \in ApiKeys \ {""} :
                       getConfigBody([configFile EXCEPT !.apiKey = key]) = configReply'.body
                  /\ DOMAIN configReply'.body
                       = (DOMAIN configFile \ {"apiKey"}) \cup {"configured"}
                  /\ \A f \in DOMAIN configFile \ {"apiKey"} :
                       configReply'.body[f] = configFile[f]
                  /\ configFile'.apiKey \in ApiKeys \ {""}]_vars

\* C21 witness: a configuration with a model was stored, then replaced by one with
\* another key, and GET /api/config has answered for the file with the second key.
C21_Witness ==
  /\ configReply.route = "GET"
  /\ configFile # NoConfig
  /\ configFile.apiKey = "sk-B"
  /\ "model" \in DOMAIN configReply.body
  /\ configReply.body.apiEndpoint = configFile.apiEndpoint

(* ======================== sending below the tip ======================= *)

\* C22: handleSendMessage called with the cursor at index i, anywhere from -1 to
\* the last index, makes the in-memory log the first i+1 events of the log as it
\* was followed by the new request event of the frontend, writes exactly that
\* sequence under the current conversation id, which it does not change, leaves
\* every other record as it was, and puts the cursor on the new last index i+1.
C22_SendBranchesAndDiscards ==
  [][op'.name = "send" =>
       LET kept == Slice(debugEvents, historyIndex + 1)
           sent == debugEvents'[Len(debugEvents')]
       IN /\ debugEvents' = Append(kept, sent)
          /\ Len(kept) = historyIndex + 1
          /\ sent.type = "request" /\ sent.source = "frontend"
          /\ sent.data = [content |-> Utterance]
          /\ \A e \in Range(debugEvents) : e.id # sent.id
          /\ historyIndex' = historyIndex + 1
          /\ historyIndex' = Len(debugEvents') - 1
          /\ currentConversationId' = currentConversationId
          /\ currentConversationId \in StoredIds(conversations')
          /\ getConversation(conversations', currentConversationId) = Append(kept, sent)
          /\ \A id \in StoredIds(conversations) \ {currentConversationId} :
               getConversation(conversations', id) = getConversation(conversations, id)
          /\ StoredIds(conversations') = StoredIds(conversations) \cup {currentConversationId}]_vars

\* C22 witness: a message was sent with the cursor at -1 on a log that held
\* events; the log is the new event alone and so is the stored record.
C22_Witness ==
  /\ op.name = "send"
  /\ op.below
  /\ Len(debugEvents) = 1
  /\ historyIndex = 0
  /\ getConversation(conversations, currentConversationId) = debugEvents

(* ===================== switching the conversation ===================== *)

\* C23: a step that enters another conversation, by handleResetChat or by the
\* resolution of handleSelectConversation, leaves the stored events of the
\* conversation that was current before it as they were, and the bookkeeping
\* event it appends is stored under the id entered and under no other id.
C23_SwitchLeavesPreviousRecord ==
  [][op'.name \in {"reset", "selected"} /\ currentConversationId' # currentConversationId
       => LET bookkeeping == debugEvents'[Len(debugEvents')]
          IN /\ getConversation(conversations', currentConversationId)
                  = getConversation(conversations, currentConversationId)
             /\ bookkeeping \in Range(getConversation(conversations', currentConversationId'))
             /\ \A id \in StoredIds(conversations') \ {currentConversationId'} :
                  bookkeeping \notin Range(getConversation(conversations', id))]_vars

\* C24: when the completion call of a turn settles after the user has entered
\* another conversation than the one the turn was started in, the response,
\* tool_call and error events of the turn are not appended to the log on screen,
\* which is the other conversation's, and the record of the turn's conversation
\* gains no event of the log on screen.
C24_TurnEventsStayInTheirConversation ==
  [][op'.name \in {"resolved", "rejected"} /\ turn.convId # currentConversationId
       => /\ debugEvents' = debugEvents
          /\ \A e \in Range(debugEvents) :
               e \in Range(getConversation(conversations', turn.convId))
                 => e \in Range(getConversation(conversations, turn.convId))]_vars

(* ================== the history given to the completion =============== *)

\* C27: the history handleSendMessage hands to the completion call is the list of
\* messages shown at the cursor when the message was sent followed by the new user
\* message. At the send, the messages the turn keeps are the reducer's output on
\* the prefix up to the cursor, the reducer's output on the log right after the
\* send is that list followed by the message of the user event, and no message of
\* that list comes from an event beyond the cursor; at the call, whatever happened
\* to the log since the send, the history handed over is the list kept followed by
\* the message of the user event.
C27_ContextIsViewAtCursorPlusUserMessage ==
  [][/\ op'.name = "send"
          => LET handed == Append(turn'.messages, UserMessage(turn'.userEvent))
             IN /\ turn'.messages = messages
                /\ turn'.messages = Messages(Slice(debugEvents, historyIndex + 1))
                /\ Messages(debugEvents') = handed
                /\ \A i \in (historyIndex + 2)..Len(debugEvents) :
                     \A j \in 1..Len(handed) : handed[j].id # debugEvents[i].id
     /\ op'.name = "chat"
          => /\ turn'.contextMessages = Append(turn.messages, UserMessage(turn.userEvent))
             /\ debugEvents'[Len(debugEvents')].data.messages = turn'.contextMessages]_vars

\* C27 witness: the call has been made for a message sent after an earlier event
\* that is no longer in the log; the history handed over is the user message
\* alone, and the request event that carries it is the last event of the log.
C27_Witness ==
  /\ op.name = "chat"
  /\ turn.pc = "calling"
  /\ Len(turn.contextMessages) = 1
  /\ Len(debugEvents) = 2
  /\ debugEvents[1].id = 2
  /\ turn.userEvent = debugEvents[1]

(* ============================ Clear Events ============================ *)

\* C29: Clear Events empties the in-memory log, puts the cursor at -1 and the view
\* at no message, and stores the empty list under the current conversation id: the
\* record exists afterwards and holds no event. The current conversation id and
\* the record of every other conversation are unchanged, no record appears or
\* disappears but the current one's, and an append made next, by addDebugEvent or
\* by a send, gives a log of length 1 with the cursor at 0.
C29_ClearEmptiesLogAndKeepsRecord ==
  [][op'.name = "clear" =>
       /\ debugEvents' = <<>>
       /\ historyIndex' = -1
       /\ messages' = <<>>
       /\ currentConversationId' = currentConversationId
       /\ currentConversationId \in StoredIds(conversations')
       /\ getConversation(conversations', currentConversationId) = <<>>
       /\ StoredIds(conversations') = StoredIds(conversations) \cup {currentConversationId}
       /\ \A id \in StoredIds(conversations) \ {currentConversationId} :
            getConversation(conversations', id) = getConversation(conversations, id)
       /\ LET cleared == AppState(debugEvents', historyIndex', conversations')
              event == ModelChangedEvent(tick + 1, ModelName)
              appended == addDebugEvent(cleared, currentConversationId, event)
              sent == SendState(cleared, currentConversationId, UserEvent(tick + 1, Utterance))
          IN /\ appended.debugEvents = <<event>> /\ appended.historyIndex = 0
             /\ Len(sent.debugEvents) = 1 /\ sent.historyIndex = 0]_vars

\* C29 witness: the log of the second conversation was cleared while the first
\* conversation had a record with events; the second has a record without events.
C29_Witness ==
  /\ op.name = "clear"
  /\ debugEvents = <<>>
  /\ currentConversationId = 2
  /\ StoredIds(conversations) = {1, 2}
  /\ getConversation(conversations, 1) # <<>>
  /\ getConversation(conversations, 2) = <<>>

(* ============================== deletion ============================== *)

\* C30: a deleted conversation stays deleted: the operation that follows the
\* deletion of a conversation, be it an append, a model change or a move of the
\* cursor, and the deleted conversation be the one on screen or not, leaves the
\* store without a record of the id deleted.
C30_DeletedStaysDeleted ==
  [][op.name = "delete" => op.id \notin StoredIds(conversations')]_vars

(* ============================ time travel ============================= *)

\* C19: a move of the cursor, by the slider to any index from -1 to the last one
\* or by Go Live to the last one, changes the cursor and nothing else: the log, the
\* current conversation id, every stored conversation, the loading flag and the
\* operations in flight are as before, and the view is the reducer's output on the
\* new prefix. A move that leaves the tip can be undone: Go Live after it shows
\* exactly the messages shown before it, and every move that arrives at the tip
\* shows the messages of the whole log.
C19_CursorMoveChangesOnlyCursor ==
  [][op'.name \in {"slider", "goLive"} /\ historyIndex' # historyIndex
       => /\ debugEvents' = debugEvents
          /\ currentConversationId' = currentConversationId
          /\ conversations' = conversations
          /\ <<loading, turn, selecting, modelChange>>' = <<loading, turn, selecting, modelChange>>
          /\ historyIndex' \in -1..(Len(debugEvents) - 1)
          /\ op'.name = "goLive" => historyIndex' = Len(debugEvents) - 1
          /\ messages' = Render(debugEvents, historyIndex')
          /\ historyIndex' = Len(debugEvents) - 1 => messages' = Messages(debugEvents)
          /\ ~op'.below =>
               LET moved == AppState(debugEvents', historyIndex', conversations')
                   back == setHistoryIndex(moved, Len(moved.debugEvents) - 1)
               IN /\ Render(back.debugEvents, back.historyIndex) = messages
                  /\ back = AppState(debugEvents, historyIndex, conversations)]_vars

\* C19 witness: Go Live has brought the cursor back from below the tip to the tip
\* of a log that is stored and shows two messages or more.
C19_Witness ==
  /\ op.name = "goLive"
  /\ op.below
  /\ historyIndex = Len(debugEvents) - 1
  /\ Len(messages) >= 2
  /\ \E k \in 1..Len(conversations) : conversations[k].events = debugEvents

(* =========================== the two stores =========================== *)

\* A completion without tool calls resolves.
PlainCompletionResolved(r) == CompletionResolvedWith(r, {<<>>})

\* Conversations are written, deleted and loaded in the frontend store, and
\* written and loaded in the backend store.
NextStores ==
  \/ handleSendMessage
  \/ handleResetChat
  \/ DeleteConversation
  \/ handleSelectConversation
  \/ ConversationSelected
  \/ Configure
  \/ PostChat(1)
  \/ PlainCompletionResolved(1)

SpecStores == Init /\ [][NextStores]_vars

\* C18: a load of a conversation id that has no record returns the empty sequence
\* and no error, and creates no record. Frontend: when getConversation resolves for
\* an id deleted since it was listed, the log becomes the empty loaded log plus
\* the bookkeeping event counting 0 events, and the only record written is the one
\* the append saves. Backend: when POST /api/chat loads an id that has no file, the
\* history is the system prompt and the user message alone, and no file appears.
C18_LoadOfUnknownIdIsEmpty ==
  [][/\ selecting # Idle /\ selecting' = Idle /\ selecting.id \notin StoredIds(conversations)
          => /\ debugEvents' = <<ConversationLoadedEvent(tick + 1, selecting.id, 0)>>
             /\ StoredIds(conversations') = StoredIds(conversations) \cup {selecting.convId}
             /\ selecting.id # selecting.convId => selecting.id \notin StoredIds(conversations')
             /\ currentConversationId' = selecting.id
     /\ \A r \in Requests :
          /\ requests[r].pc = "new"
          /\ requests'[r].pc = "awaiting"
          /\ ~conversationFiles[requests'[r].convId].exists
          => /\ requests'[r].messages =
                  <<SystemPrompt, [role |-> "user", content |-> requests'[r].message]>>
             /\ conversationFiles' = conversationFiles
             /\ Storage_listConversations(conversationFiles')
                  = Storage_listConversations(conversationFiles)]_vars

\* C18 witness: the frontend has loaded a conversation that had been deleted, its
\* log holding the bookkeeping event alone and the id having no record, and a
\* backend call is waiting for its completion on an id that has no file.
C18_Witness ==
  /\ op.name = "selected"
  /\ Len(debugEvents) = 1
  /\ debugEvents[1].data.eventCount = 0
  /\ currentConversationId \notin StoredIds(conversations)
  /\ \E r \in Requests :
       /\ requests[r].pc = "awaiting"
       /\ ~conversationFiles[requests[r].convId].exists

====
